---- MODULE Spec2Model ----
(***************************************************************************)
(* PostgresEventStore (src/src/PostgresEventStore.ts) over the schema of   *)
(* src/sql/events.sql: an event log, an outbox, and the four operations    *)
(* save, load, publishSequence and publishOutstanding, each running in one *)
(* READ COMMITTED transaction of the database.                             *)
(*                                                                         *)
(* The database is modelled by what the statements of the source rely on:  *)
(*  - rows written by an open transaction are invisible to the others and  *)
(*    become visible together at COMMIT; ROLLBACK discards them;           *)
(*  - every statement reads the rows committed when it starts, plus the    *)
(*    transaction's own changes (READ COMMITTED);                          *)
(*  - an INSERT whose primary key is held by an uncommitted INSERT or an   *)
(*    uncommitted DELETE of another transaction waits for it, and fails    *)
(*    with a unique violation when the key is (still) present;             *)
(*  - FOR UPDATE and DELETE take an exclusive row lock, FOR SHARE a shared *)
(*    one; shared locks are compatible with each other only; a blocked     *)
(*    FOR UPDATE re-checks the row when it wakes and skips a deleted one;  *)
(*    SKIP LOCKED skips the rows it cannot lock at once;                   *)
(*  - locks are held until the transaction ends;                           *)
(*  - a cycle of waiting transactions is broken by failing one of them;    *)
(*  - a statement or COMMIT that fails aborts the transaction in the       *)
(*    server: its rows are dead and its locks released before ROLLBACK;    *)
(*  - NOW() is the time at which BEGIN ran.                                *)
(* Every await of the source is a step: other calls run between            *)
(* pool.connect() and BEGIN, and between any two statements.               *)
(***************************************************************************)
EXTENDS Integers, Sequences, FiniteSets, TLC

VARIABLES
    events,         \* table eventstore.events: the committed rows
    outbox,         \* table eventstore.outbox: the committed rows
    tx,             \* the calls of the run: tx[t] is call t and its transaction
    clock,          \* wall clock, read by new Date() and by NOW()
    loadBatchSize   \* PostgresEventStore.loadBatchSize

vars == <<events, outbox, tx, clock, loadBatchSize>>

-----------------------------------------------------------------------------
(* Bounds of the model *)

MaxSlot == 3        \* commit versions ("slot") are 1..MaxSlot
MaxSaveSlot == 2    \* ... and 1..MaxSaveSlot where two writers race
MaxIndex == 3       \* event indices are 1..MaxIndex
MaxEvents == 2      \* events per commit
MaxClock == 2       \* the clock runs 0..MaxClock
MaxBatch == 2       \* loadBatchSize is 1..MaxBatch in the load specifications
MaxAge == 1         \* minAgeSeconds is 0..MaxAge
MaxLimit == 2       \* limit is 1..MaxLimit

defaultLoadBatchSize == 100

Streams == {"S", "T"}

-----------------------------------------------------------------------------
(* Values *)

NoLocation == [sequence |-> "", slot |-> 0]
NoCommit == [location |-> NoLocation, events |-> <<>>]

\* A Commit as the caller hands it to save: n events of consecutive indices
\* from lo, in ascending order; the ids are unique to the call.
CommitOf(t, s, v, lo, n) ==
    [location |-> [sequence |-> s, slot |-> v],
     events |-> [k \in 1..n |->
                   [id |-> <<t, k>>,
                    location |-> [sequence |-> s, index |-> lo + k - 1]]]]

Commits(t, streams, slots, maxn) ==
    UNION {{CommitOf(t, s, v, lo, n) : s \in streams, v \in slots,
                n \in 1..(IF maxn < MaxIndex + 1 - lo THEN maxn ELSE MaxIndex + 1 - lo)} :
           lo \in 1..MaxIndex}

rowToEvent(row) ==
    [id |-> row.id, location |-> [sequence |-> row.sequence, index |-> row.index]]

outboxRowToLocation(row) == [sequence |-> row.sequence, slot |-> row.slot]

\* The rows of a set, as the sequence ORDER BY index returns them.
RECURSIVE orderByIndex(_)
orderByIndex(rows) ==
    IF rows = {} THEN <<>>
    ELSE LET r == CHOOSE x \in rows : \A y \in rows : x.index <= y.index
         IN <<r>> \o orderByIndex(rows \ {r})

\* The orders in which a statement may come upon the rows of a set when nothing
\* fixes the order (no ORDER BY: the order of the scan that the planner chose).
RECURSIVE scanOrders(_)
scanOrders(rows) ==
    IF rows = {} THEN {<<>>}
    ELSE UNION {{<<r>> \o o : o \in scanOrders(rows \ {r})} : r \in rows}

\* The sequences that ORDER BY index may return for the rows of a set: index
\* ascends, and rows of the same index come in either order.
ordersByIndex(rows) ==
    {o \in scanOrders(rows) :
        \A i \in DOMAIN o : \A j \in DOMAIN o : i < j => o[i].index <= o[j].index}

\* ORDER BY slot
RECURSIVE orderBySlot(_)
orderBySlot(rows) ==
    IF rows = {} THEN <<>>
    ELSE LET r == CHOOSE x \in rows : \A y \in rows : x.slot <= y.slot
         IN <<r>> \o orderBySlot(rows \ {r})

Limit(s, n) == IF Len(s) <= n THEN s ELSE SubSeq(s, 1, n)

Range(s) == {s[k] : k \in DOMAIN s}

\* rows.map(rowToEvent)
rowsToEvents(rows) == [k \in DOMAIN rows |-> rowToEvent(rows[k])]

-----------------------------------------------------------------------------
(* Calls and their transactions *)

Idle(k) ==
    [kind |-> k, pc |-> "idle", error |-> "none", result |-> "none",
     \* the error the call rejects with; the connection of the call ("none", "held",
     \* "released"), the release() calls and the ROLLBACK statements so far
     thrown |-> "none", connection |-> "none", released |-> 0, rollbacks |-> 0,
     now |-> 0,
     \* uncommitted changes and row locks of the transaction
     insEvents |-> {}, insOutbox |-> {}, del |-> {}, share |-> {}, excl |-> {},
     \* save
     commit |-> NoCommit, commitTimestamp |-> 0, i |-> 0, rivals |-> {},
     \* load
     since |-> NoLocation, slot |-> 0, processed |-> <<>>, batches |-> 0,
     lastCommit |-> NoLocation, lastEvent |-> NoLocation, written |-> FALSE,
     \* doPublish
     location |-> NoLocation, cand |-> <<>>, seen |-> {}, pendingSlots |-> <<>>,
     pendingEvents |-> <<>>, target |-> <<>>, calls |-> <<>>,
     \* the events that the publisher function took without failing, in this call
     \* and in the calls of the same caller before it
     published |-> {},
     \* publishOutstanding
     outboxItems |-> {}, found |-> {}, earlier |-> {}]

T == DOMAIN tx

\* The call is in progress: from pool.connect() to connection.release().
InProgress(t) == tx[t].pc \notin {"idle", "done"}

\* The transaction of the call has begun and the call has not ended it.
Open(t) == tx[t].pc \notin {"idle", "begin", "done"}

InitWith(kinds, batchSizes) ==
    /\ events = {}
    /\ outbox = {}
    /\ clock = 0
    /\ loadBatchSize \in batchSizes
    /\ tx = [t \in 1..Len(kinds) |-> Idle(kinds[t])]

\* const connection = await this.pool.connect(): the call has its connection
connect(r) == [r EXCEPT !.pc = "begin", !.connection = "held"]

\* The first statement of the work function of each operation.
workFunction(kind) ==
    CASE kind = "save" -> "insertEvent"
      [] kind = "load" -> "query"
      [] kind = "publishSequence" -> "select"
      [] kind = "publishOutstanding" -> "find"

\* await connection.query(`BEGIN TRANSACTION ISOLATION LEVEL ${level}`): the
\* transaction starts, and NOW() is the time of this step from here on.
BEGIN(t) ==
    /\ tx[t].pc = "begin"
    /\ tx' = [tx EXCEPT ![t] = [@ EXCEPT !.pc = workFunction(tx[t].kind), !.now = clock]]
    /\ UNCHANGED <<events, outbox, clock, loadBatchSize>>

\* A faulty variant of catchError: the failure is noted, the transaction commits.
catchErrorCommits(r, e) == [r EXCEPT !.pc = "commit", !.error = e]

\* catch (error) { ROLLBACK; throw error }: the failure of a step of the work function
catchError(r, e) == [r EXCEPT !.pc = "rollback", !.error = e]

\* A statement fails in the server: the server aborts the transaction at once,
\* its uncommitted rows are dead and its row locks are gone, before the catch
\* block has sent ROLLBACK.
aborted(r, e) ==
    [catchError(r, e) EXCEPT !.insEvents = {}, !.insOutbox = {},
                             !.del = {}, !.share = {}, !.excl = {}]

\* A faulty variant of eventsAfterCommit: the events of the commits whose outbox
\* rows the transaction deleted are deleted with them.
eventsAfterCommitPruned(r) ==
    (events \ {row \in events : \E d \in r.del : /\ d.sequence = row.sequence
                                                 /\ d.slot = row.slot})
        \cup r.insEvents

\* What COMMIT makes of the tables.
eventsAfterCommit(r) == events \cup r.insEvents
outboxAfterCommit(r) == (outbox \ r.del) \cup r.insOutbox

\* A load, started already, of a stream that this commit writes to.
Overwritten(u, r) ==
    /\ tx[u].kind = "load"
    /\ tx[u].pc # "idle"
    /\ \E row \in r.insEvents : row.sequence = tx[u].since.sequence

COMMIT(t) ==
    /\ tx[t].pc = "commit"
    /\ events' = eventsAfterCommit(tx[t])
    /\ outbox' = outboxAfterCommit(tx[t])
    /\ tx' = [u \in T |->
                IF u = t
                THEN [tx[t] EXCEPT !.pc = "done", !.result = "ok",
                                   !.share = {}, !.excl = {},
                                   !.connection = "released", !.released = @ + 1]
                ELSE IF Overwritten(u, tx[t])
                THEN [tx[u] EXCEPT !.written = TRUE]
                ELSE tx[u]]
    /\ UNCHANGED <<clock, loadBatchSize>>

\* A faulty variant of ROLLBACK: the catch block ends the transaction with COMMIT.
ROLLBACKCommits(t) ==
    /\ tx[t].pc = "rollback"
    /\ events' = eventsAfterCommit(tx[t])
    /\ outbox' = outboxAfterCommit(tx[t])
    /\ tx' = [tx EXCEPT ![t] = [@ EXCEPT !.pc = "done", !.result = "failed",
                                         !.thrown = tx[t].error,
                                         !.rollbacks = @ + 1,
                                         !.connection = "released", !.released = @ + 1,
                                         !.insEvents = {}, !.insOutbox = {},
                                         !.del = {}, !.share = {}, !.excl = {}]]
    /\ UNCHANGED <<clock, loadBatchSize>>

ROLLBACK(t) ==
    /\ tx[t].pc = "rollback"
    /\ tx' = [tx EXCEPT ![t] = [@ EXCEPT !.pc = "done", !.result = "failed",
                                         !.thrown = tx[t].error,
                                         !.rollbacks = @ + 1,
                                         !.connection = "released", !.released = @ + 1,
                                         !.insEvents = {}, !.insOutbox = {},
                                         !.del = {}, !.share = {}, !.excl = {}]]
    /\ UNCHANGED <<events, outbox, clock, loadBatchSize>>

Tick ==
    /\ clock < MaxClock
    /\ clock' = clock + 1
    /\ UNCHANGED <<events, outbox, tx, loadBatchSize>>

-----------------------------------------------------------------------------
(* save *)

eventKey(row) == <<row.sequence, row.index>>
\* The key of the outbox of the store with aggregate names.
aggregateOutboxKey(row) == <<row.sequence, row.aggregate_name, row.slot>>

outboxKey(row) ==
    IF "aggregate_name" \in DOMAIN row THEN aggregateOutboxKey(row)
    ELSE <<row.sequence, row.slot>>

\* The key of the outbox row that a save of the commit location inserts.
commitKey(location) ==
    IF "aggregateName" \in DOMAIN location
    THEN <<location.sequence, location.aggregateName, location.slot>>
    ELSE <<location.sequence, location.slot>>

eventRow(commit, event, commitTimestamp, t) ==
    [id |-> event.id, sequence |-> commit.location.sequence,
     slot |-> commit.location.slot, index |-> event.location.index,
     committed_at |-> commitTimestamp, xmin |-> t]

\* committed_at is not in the column list: DEFAULT NOW(), the transaction's start
outboxRow(commit, now, t) ==
    [sequence |-> commit.location.sequence, slot |-> commit.location.slot,
     committed_at |-> now, xmin |-> t]

\* The transactions an INSERT of this key waits for.
eventInsertBlockers(t, key) ==
    {u \in T \ {t} : Open(u) /\ \E row \in tx[u].insEvents : eventKey(row) = key}

outboxInsertBlockers(t, key) ==
    {u \in T \ {t} : Open(u) /\ \E row \in tx[u].insOutbox \cup tx[u].del :
                                    outboxKey(row) = key}

\* PRIMARY KEY("sequence", "index") and PRIMARY KEY("sequence", "slot")
eventKeyTaken(t, key) ==
    \E row \in events \cup tx[t].insEvents : eventKey(row) = key

outboxKeyTaken(t, key) ==
    \E row \in (outbox \ tx[t].del) \cup tx[t].insOutbox : outboxKey(row) = key

\* The save calls in progress for the same (sequence, slot) when this one starts.
rivalsOf(t, commit) ==
    {u \in T \ {t} : /\ tx[u].kind = "save"
                     /\ InProgress(u)
                     /\ tx[u].commit.location = commit.location}

\* commitTimestamp is what new Date() read when save was called; the pool hands
\* out a connection, and the transaction begins at that time or later.
save(t, commit, commitTimestamp) ==
    /\ tx[t].kind = "save"
    /\ tx[t].pc = "idle"
    /\ commitTimestamp \in 0..clock
    /\ tx' = [tx EXCEPT ![t] = [connect(@) EXCEPT
                                    !.commit = commit,
                                    !.commitTimestamp = commitTimestamp,
                                    !.i = 1,
                                    !.rivals = rivalsOf(t, commit)]]
    /\ UNCHANGED <<events, outbox, clock, loadBatchSize>>

saveInsertEvent(t) ==
    /\ tx[t].pc = "insertEvent"
    /\ tx[t].i <= Len(tx[t].commit.events)
    /\ LET r == tx[t]
           row == eventRow(r.commit, r.commit.events[r.i], r.commitTimestamp, t)
       IN /\ eventInsertBlockers(t, eventKey(row)) = {}
          /\ tx' = [tx EXCEPT ![t] =
                       IF eventKeyTaken(t, eventKey(row))
                       THEN aborted(r, "unique")
                       ELSE [r EXCEPT !.insEvents = @ \cup {row}, !.i = @ + 1]]
    /\ UNCHANGED <<events, outbox, clock, loadBatchSize>>

saveInsertOutbox(t) ==
    /\ tx[t].pc = "insertEvent"
    /\ tx[t].i > Len(tx[t].commit.events)
    /\ LET r == tx[t]
           row == outboxRow(r.commit, r.now, t)
       IN /\ outboxInsertBlockers(t, outboxKey(row)) = {}
          /\ tx' = [tx EXCEPT ![t] =
                       IF outboxKeyTaken(t, outboxKey(row))
                       THEN aborted(r, "unique")
                       ELSE [r EXCEPT !.insOutbox = @ \cup {row}, !.pc = "commit"]]
    /\ UNCHANGED <<events, outbox, clock, loadBatchSize>>

-----------------------------------------------------------------------------
(* Row locks *)

\* The outbox as a statement of transaction t reads it.
visibleOutbox(t) == (outbox \ tx[t].del) \cup tx[t].insOutbox

\* A faulty variant of exclusiveBlockers: a SELECT that takes no row lock.
exclusiveBlockersNone(t, row) == {}

\* The other transactions whose lock on the row conflicts with an exclusive lock
\* (FOR UPDATE, DELETE), and with a shared lock (FOR SHARE).
exclusiveBlockers(t, row) ==
    {u \in T \ {t} : row \in tx[u].share \cup tx[u].excl}

shareBlockers(t, row) ==
    {u \in T \ {t} : row \in tx[u].excl}

-----------------------------------------------------------------------------
(* doPublish *)

\* A faulty variant of pendingSlotsQuery: no condition on the sequence.
pendingSlotsQueryAnySequence(t, location) ==
    orderBySlot({row \in visibleOutbox(t) : row.slot <= location.slot})

\* SELECT sequence, slot FROM eventstore.outbox
\*   WHERE sequence = $1 AND slot <= $2 ORDER BY slot FOR UPDATE: the rows it reads
pendingSlotsQuery(t, location) ==
    orderBySlot({row \in visibleOutbox(t) :
                    row.sequence = location.sequence /\ row.slot <= location.slot})

\* A faulty variant of pendingEventsQuery: slot > $2.
pendingEventsQueryAbove(t, location, first, last) ==
    orderByIndex({row \in events \cup tx[t].insEvents :
                    /\ row.sequence = location.sequence
                    /\ row.slot > first.slot
                    /\ row.slot <= last.slot})

\* A faulty variant of pendingEventsQuery: slot < $3.
pendingEventsQueryBelow(t, location, first, last) ==
    orderByIndex({row \in events \cup tx[t].insEvents :
                    /\ row.sequence = location.sequence
                    /\ row.slot >= first.slot
                    /\ row.slot < last.slot})

\* SELECT ... FROM eventstore.events
\*   WHERE sequence = $1 AND slot >= $2 AND slot <= $3 ORDER BY index
pendingEventsQuery(t, location, first, last) ==
    orderByIndex({row \in events \cup tx[t].insEvents :
                    /\ row.sequence = location.sequence
                    /\ row.slot >= first.slot
                    /\ row.slot <= last.slot})

\* A faulty variant of deleteQuery: no upper limit of the slot.
deleteQueryFrom(t, location, first, last) ==
    {row \in visibleOutbox(t) :
        /\ row.sequence = location.sequence
        /\ row.slot >= first.slot}

\* DELETE FROM eventstore.outbox
\*   WHERE sequence = $1 AND slot >= $2 AND slot <= $3: the rows it reads
deleteQuery(t, location, first, last) ==
    {row \in visibleOutbox(t) :
        /\ row.sequence = location.sequence
        /\ row.slot >= first.slot
        /\ row.slot <= last.slot}

\* doPublish returns: publishSequence's work function is over, publishOutstanding
\* goes on with its next location.
return(r) ==
    IF r.kind = "publishSequence" \/ r.outboxItems = {}
    THEN [r EXCEPT !.pc = "commit"]
    ELSE [r EXCEPT !.pc = "select"]

\* if (pendingSlots.length === 0) { return; }
locked(r) ==
    IF r.cand # <<>> THEN [r EXCEPT !.pc = "lock"]
    ELSE IF Len(r.pendingSlots) = 0 THEN return(r)
    ELSE [r EXCEPT !.pc = "publish"]

\* The FOR UPDATE statement starts: it reads the outbox.
doPublishSelect(t, r, location) ==
    LET rows == pendingSlotsQuery(t, location)
    IN tx' = [tx EXCEPT ![t] = locked([r EXCEPT !.location = location,
                                                !.cand = rows,
                                                !.seen = Range(rows),
                                                !.pendingSlots = <<>>,
                                                !.target = <<>>])]

\* The FOR UPDATE statement locks its next row, in slot order. It waits while
\* another transaction holds a lock on the row, and skips a row deleted meanwhile.
doPublishLock(t) ==
    /\ tx[t].pc = "lock"
    /\ LET r == tx[t]
           row == Head(r.cand)
       IN IF row \notin visibleOutbox(t)
          THEN tx' = [tx EXCEPT ![t] = locked([r EXCEPT !.cand = Tail(@)])]
          ELSE /\ exclusiveBlockers(t, row) = {}
               /\ tx' = [tx EXCEPT ![t] =
                            locked([r EXCEPT !.cand = Tail(@),
                                             !.excl = @ \cup {row},
                                             !.pendingSlots = Append(@, row)])]
    /\ UNCHANGED <<events, outbox, clock, loadBatchSize>>

\* A faulty variant of publisherDone: a rejection of the publisher is ignored.
publisherDoneAlways(r, batch, ok) ==
    [r EXCEPT !.calls = Append(@, [events |-> batch, ok |-> ok]),
              !.published = @ \cup Range(batch),
              !.pendingEvents = <<>>,
              !.pc = "delete"]

\* await publisher(pendingEvents.map(rowToEvent)), and what follows it
publisherDone(r, batch, ok) ==
    IF ok
    THEN [r EXCEPT !.calls = Append(@, [events |-> batch, ok |-> TRUE]),
                   !.published = @ \cup Range(batch),
                   !.pendingEvents = <<>>,
                   !.pc = "delete"]
    ELSE catchError([r EXCEPT !.calls = Append(@, [events |-> batch, ok |-> FALSE]),
                              !.pendingEvents = <<>>],
                    "publisher")

\* const first, last; const pendingEvents = (await client.query(...)).rows
doPublishEvents(t) ==
    /\ tx[t].pc = "publish"
    /\ LET r == tx[t]
           first == r.pendingSlots[1]
           last == r.pendingSlots[Len(r.pendingSlots)]
       IN tx' = [tx EXCEPT ![t] =
                    [r EXCEPT !.pendingEvents = pendingEventsQuery(t, r.location, first, last),
                              !.pc = "publisher"]]
    /\ UNCHANGED <<events, outbox, clock, loadBatchSize>>

\* The publisher function, called with the events that the query returned,
\* settles: other calls have run since the query.
doPublishPublish(t, ok) ==
    /\ tx[t].pc = "publisher"
    /\ tx' = [tx EXCEPT ![t] = publisherDone(tx[t], rowsToEvents(tx[t].pendingEvents), ok)]
    /\ UNCHANGED <<events, outbox, clock, loadBatchSize>>

\* The DELETE statement goes through the rows it read (r.target), in the order
\* of its scan: it locks and deletes a row on which no other transaction holds a lock,
\* skips a row that a committed transaction deleted meanwhile, and waits at the
\* first row that another transaction has locked, the rows before it deleted.
RECURSIVE deleting(_, _)
deleting(t, r) ==
    IF r.target = <<>> THEN return(r)
    ELSE LET row == Head(r.target)
         IN IF row \notin outbox
            THEN deleting(t, [r EXCEPT !.target = Tail(@)])
            ELSE IF exclusiveBlockers(t, row) = {}
            THEN deleting(t, [r EXCEPT !.target = Tail(@),
                                       !.del = @ \cup {row},
                                       !.excl = @ \cup {row}])
            ELSE [r EXCEPT !.pc = "deleteWait"]

\* The DELETE statement starts: it reads the outbox. The statement has no ORDER
\* BY, so that the order in which it comes upon the rows is the planner's.
doPublishDelete(t) ==
    /\ tx[t].pc = "delete"
    /\ LET r == tx[t]
           first == r.pendingSlots[1]
           last == r.pendingSlots[Len(r.pendingSlots)]
           rows == deleteQuery(t, r.location, first, last)
       IN \E target \in scanOrders(rows) :
             tx' = [tx EXCEPT ![t] = deleting(t, [r EXCEPT !.target = target])]
    /\ UNCHANGED <<events, outbox, clock, loadBatchSize>>

\* The waiting DELETE wakes when the lock on the row it waits at is gone: it
\* skips the row when it was deleted meanwhile, and goes on with the rows it read.
doPublishDeleteWait(t) ==
    /\ tx[t].pc = "deleteWait"
    /\ \/ Head(tx[t].target) \notin outbox
       \/ exclusiveBlockers(t, Head(tx[t].target)) = {}
    /\ tx' = [tx EXCEPT ![t] = deleting(t, tx[t])]
    /\ UNCHANGED <<events, outbox, clock, loadBatchSize>>

-----------------------------------------------------------------------------
(* publishSequence *)

publishSequence(t, location) ==
    /\ tx[t].kind = "publishSequence"
    /\ tx[t].pc = "idle"
    /\ tx' = [tx EXCEPT ![t] = [connect(@) EXCEPT !.location = location]]
    /\ UNCHANGED <<events, outbox, clock, loadBatchSize>>

publishSequenceSelect(t) ==
    /\ tx[t].kind = "publishSequence"
    /\ tx[t].pc = "select"
    /\ doPublishSelect(t, tx[t], tx[t].location)
    /\ UNCHANGED <<events, outbox, clock, loadBatchSize>>

-----------------------------------------------------------------------------
(* publishOutstanding *)

publishOutstanding(t) ==
    /\ tx[t].kind = "publishOutstanding"
    /\ tx[t].pc = "idle"
    /\ tx' = [tx EXCEPT ![t] = [connect(@) EXCEPT
                                    !.earlier = {u \in T : /\ tx[u].kind = "publishSequence"
                                                           /\ tx[u].pc = "done"}]]
    /\ UNCHANGED <<events, outbox, clock, loadBatchSize>>

\* WHERE committed_at < (NOW() - $1::interval); NOW() is the transaction's start
outstanding(row, now, minAgeSeconds) == row.committed_at < now - minAgeSeconds

\* FOR SHARE SKIP LOCKED: the rows on which a shared lock is granted at once
lockableForShare(t, row) == shareBlockers(t, row) = {}

\* SELECT sequence, slot FROM eventstore.outbox WHERE committed_at < (NOW() - $1::interval)
\*   LIMIT $2 FOR SHARE SKIP LOCKED: no ORDER BY, so any $2 of the rows that qualify
doFindOutstanding(t, minAgeSeconds, limit) ==
    /\ tx[t].pc = "find"
    /\ LET r == tx[t]
           rows == {row \in visibleOutbox(t) :
                       /\ outstanding(row, r.now, minAgeSeconds)
                       /\ lockableForShare(t, row)}
           n == IF Cardinality(rows) < limit THEN Cardinality(rows) ELSE limit
       IN \E outboxRows \in SUBSET rows :
            /\ Cardinality(outboxRows) = n
            /\ tx' = [tx EXCEPT ![t] =
                         return([r EXCEPT !.share = @ \cup outboxRows,
                                          !.found = outboxRows,
                                          !.outboxItems =
                                              {outboxRowToLocation(row) : row \in outboxRows}])]
    /\ UNCHANGED <<events, outbox, clock, loadBatchSize>>

\* for (let location of outboxItems) { await this.doPublish(client, location, publisher); }
publishOutstandingNext(t) ==
    /\ tx[t].kind = "publishOutstanding"
    /\ tx[t].pc = "select"
    /\ \E location \in tx[t].outboxItems :
          doPublishSelect(t, [tx[t] EXCEPT !.outboxItems = @ \ {location}], location)
    /\ UNCHANGED <<events, outbox, clock, loadBatchSize>>

-----------------------------------------------------------------------------
(* Waiting and deadlock *)

\* The transactions that the next statement of t waits for.
waitsFor(t) ==
    LET r == tx[t]
    IN CASE r.pc = "insertEvent" /\ r.i <= Len(r.commit.events) ->
                eventInsertBlockers(t, <<r.commit.location.sequence,
                                         r.commit.events[r.i].location.index>>)
         [] r.pc = "insertEvent" /\ r.i > Len(r.commit.events) ->
                outboxInsertBlockers(t, commitKey(r.commit.location))
         [] r.pc = "lock" ->
                IF Head(r.cand) \in visibleOutbox(t)
                THEN exclusiveBlockers(t, Head(r.cand)) ELSE {}
         [] r.pc = "deleteWait" ->
                IF Head(r.target) \in outbox
                THEN exclusiveBlockers(t, Head(r.target)) ELSE {}
         [] OTHER -> {}

RECURSIVE waitsForAll(_)
waitsForAll(set) ==
    LET more == set \cup UNION {waitsFor(u) : u \in set}
    IN IF more = set THEN set ELSE waitsForAll(more)

deadlocked(t) == \E u \in waitsFor(t) : t \in waitsForAll({u})

\* The database breaks a cycle of waiting transactions: the statement of one of
\* them fails.
deadlockDetected(t) ==
    /\ deadlocked(t)
    /\ tx' = [tx EXCEPT ![t] = aborted(@, "deadlock")]
    /\ UNCHANGED <<events, outbox, clock, loadBatchSize>>

-----------------------------------------------------------------------------
(* load *)

load(t, since) ==
    /\ tx[t].kind = "load"
    /\ tx[t].pc = "idle"
    /\ tx' = [tx EXCEPT ![t] = [connect(@) EXCEPT
                                    !.since = since, !.slot = since.slot]]
    /\ UNCHANGED <<events, outbox, clock, loadBatchSize>>

\* A faulty variant of eventRowsQuery: ORDER BY slot.
eventRowsQueryBySlot(t, since, slot, limit) ==
    {Limit(o, limit) :
        o \in {q \in scanOrders({row \in events \cup tx[t].insEvents :
                                    row.sequence = since.sequence /\ row.slot > slot}) :
                  \A i \in DOMAIN q : \A j \in DOMAIN q : i < j => q[i].slot <= q[j].slot}}

\* A faulty variant of eventRowsQuery: "slot" >= $2.
eventRowsQueryFrom(t, since, slot, limit) ==
    {Limit(o, limit) :
        o \in ordersByIndex({row \in events \cup tx[t].insEvents :
                                row.sequence = since.sequence /\ row.slot >= slot})}

\* SELECT ... FROM eventstore.events
\*   WHERE "sequence" = $1 AND "slot" > $2 ORDER BY index LIMIT $3
\* The results that the statement may return: one, as long as no two rows of
\* the stream have the same index.
eventRowsQuery(t, since, slot, limit) ==
    {Limit(o, limit) :
        o \in ordersByIndex({row \in events \cup tx[t].insEvents :
                                row.sequence = since.sequence /\ row.slot > slot})}

\* A faulty variant of loadBatch: slot, lastEvent and lastCommit are taken from
\* the first row of the batch.
loadBatchFirstRow(t, throwsAt) ==
    /\ tx[t].pc = "query"
    /\ \E eventRows \in eventRowsQuery(t, tx[t].since, tx[t].slot, loadBatchSize) :
       LET r == tx[t]
           processedEventCount == Len(eventRows)
           \* the rows handed to processorFunction, and those of them for which
           \* the body of the for loop ran to its end
           handed == IF throwsAt = 0 THEN eventRows ELSE SubSeq(eventRows, 1, throwsAt)
           done == IF throwsAt = 0 THEN eventRows ELSE SubSeq(eventRows, 1, throwsAt - 1)
           firstRow == done[1]
           after == IF Len(done) = 0 THEN r
                    ELSE [r EXCEPT !.slot = firstRow.slot,
                                   !.lastEvent = rowToEvent(firstRow).location,
                                   !.lastCommit =
                                       [sequence |-> rowToEvent(firstRow).location.sequence,
                                        slot |-> firstRow.slot]]
           looped == [after EXCEPT !.processed = @ \o rowsToEvents(handed),
                                   !.batches = @ + 1]
       IN /\ throwsAt <= processedEventCount
          /\ tx' = [tx EXCEPT ![t] =
                       IF throwsAt > 0 THEN catchError(looped, "consumer")
                       ELSE [looped EXCEPT !.pc = IF processedEventCount = loadBatchSize
                                                  THEN "query" ELSE "commit"]]
    /\ UNCHANGED <<events, outbox, clock, loadBatchSize>>

\* One turn of the do ... while loop: the query, and the for loop over its
\* rows. processorFunction takes every row (throwsAt = 0) or throws when it is
\* handed row throwsAt of the batch: the error leaves the work function.
loadBatch(t, throwsAt) ==
    /\ tx[t].pc = "query"
    /\ \E eventRows \in eventRowsQuery(t, tx[t].since, tx[t].slot, loadBatchSize) :
       LET r == tx[t]
           processedEventCount == Len(eventRows)
           \* the rows handed to processorFunction, and those of them for which
           \* the body of the for loop ran to its end
           handed == IF throwsAt = 0 THEN eventRows ELSE SubSeq(eventRows, 1, throwsAt)
           done == IF throwsAt = 0 THEN eventRows ELSE SubSeq(eventRows, 1, throwsAt - 1)
           lastRow == done[Len(done)]
           after == IF Len(done) = 0 THEN r
                    ELSE [r EXCEPT !.slot = lastRow.slot,
                                   !.lastEvent = rowToEvent(lastRow).location,
                                   !.lastCommit =
                                       [sequence |-> rowToEvent(lastRow).location.sequence,
                                        slot |-> lastRow.slot]]
           looped == [after EXCEPT !.processed = @ \o rowsToEvents(handed),
                                   !.batches = @ + 1]
       IN /\ throwsAt <= processedEventCount
          /\ tx' = [tx EXCEPT ![t] =
                       IF throwsAt > 0 THEN catchError(looped, "consumer")
                       ELSE [looped EXCEPT !.pc = IF processedEventCount = loadBatchSize
                                                  THEN "query" ELSE "commit"]]
    /\ UNCHANGED <<events, outbox, clock, loadBatchSize>>

-----------------------------------------------------------------------------
(* Writers and a publisher: two save calls and one publishSequence call on one
   stream, in every interleaving of their statements. *)

Locations(streams, slots) == {[sequence |-> s, slot |-> v] : s \in streams, v \in slots}

InitSave == InitWith(<<"save", "save", "publishSequence">>, {defaultLoadBatchSize})

NextSave ==
    \/ \E t \in T :
          \E commit \in Commits(t, {"S"}, 1..MaxSaveSlot, MaxEvents) : save(t, commit, clock)
    \/ \E t \in T : BEGIN(t)
    \/ \E t \in T : saveInsertEvent(t)
    \/ \E t \in T : saveInsertOutbox(t)
    \/ \E t \in T :
          \E location \in Locations({"S"}, 1..MaxSaveSlot) : publishSequence(t, location)
    \/ \E t \in T : publishSequenceSelect(t)
    \/ \E t \in T : doPublishLock(t)
    \/ \E t \in T : doPublishEvents(t)
    \/ \E t \in T :
          \E ok \in BOOLEAN : doPublishPublish(t, ok)
    \/ \E t \in T : doPublishDelete(t)
    \/ \E t \in T : COMMIT(t)
    \/ \E t \in T : ROLLBACK(t)

SpecSave == InitSave /\ [][NextSave]_vars

-----------------------------------------------------------------------------
(* A publisher next to writers: four save calls, each of one commit of one event
   (versions 1, 2, 3 of stream S and version 2 of stream T, in any order and
   overlap), and one publishSequence call, in every interleaving. *)

\* The commit of version v of a stream whose commit v holds the event of index v.
UnitCommit(t, s, v) == CommitOf(t, s, v, v, 1)

PublishWrites == <<[sequence |-> "S", slot |-> 1], [sequence |-> "S", slot |-> 2],
                   [sequence |-> "S", slot |-> 3], [sequence |-> "T", slot |-> 2]>>

InitPublish ==
    InitWith(<<"save", "save", "save", "save", "publishSequence">>,
             {defaultLoadBatchSize})

NextPublish ==
    \/ \E t \in T :
          /\ t \in DOMAIN PublishWrites
          /\ save(t, UnitCommit(t, PublishWrites[t].sequence, PublishWrites[t].slot), clock)
    \/ \E t \in T : BEGIN(t)
    \/ \E t \in T : saveInsertEvent(t)
    \/ \E t \in T : saveInsertOutbox(t)
    \/ \E t \in T :
          \E location \in Locations(Streams, 1..MaxSlot) : publishSequence(t, location)
    \/ \E t \in T : publishSequenceSelect(t)
    \/ \E t \in T : doPublishLock(t)
    \/ \E t \in T : doPublishEvents(t)
    \/ \E t \in T :
          \E ok \in BOOLEAN : doPublishPublish(t, ok)
    \/ \E t \in T : doPublishDelete(t)
    \/ \E t \in T : COMMIT(t)
    \/ \E t \in T : ROLLBACK(t)

SpecPublish == InitPublish /\ [][NextPublish]_vars

-----------------------------------------------------------------------------
(* Two publishers of one stream next to its writers: three save calls (versions
   1, 2, 3 of stream S, one event each) and two publishSequence calls. *)

SerialWrites == <<[sequence |-> "S", slot |-> 1], [sequence |-> "S", slot |-> 2],
                  [sequence |-> "S", slot |-> 3]>>

InitSerial ==
    InitWith(<<"save", "save", "save", "publishSequence", "publishSequence">>,
             {defaultLoadBatchSize})

NextSerial ==
    \/ \E t \in T :
          /\ t \in DOMAIN SerialWrites
          /\ save(t, UnitCommit(t, SerialWrites[t].sequence, SerialWrites[t].slot), clock)
    \/ \E t \in T : BEGIN(t)
    \/ \E t \in T : saveInsertEvent(t)
    \/ \E t \in T : saveInsertOutbox(t)
    \/ \E t \in T :
          \E location \in Locations({"S"}, 1..MaxSlot) : publishSequence(t, location)
    \/ \E t \in T : publishSequenceSelect(t)
    \/ \E t \in T : doPublishLock(t)
    \/ \E t \in T : doPublishEvents(t)
    \/ \E t \in T :
          \E ok \in BOOLEAN : doPublishPublish(t, ok)
    \/ \E t \in T : doPublishDelete(t)
    \/ \E t \in T : COMMIT(t)
    \/ \E t \in T : ROLLBACK(t)

SpecSerial == InitSerial /\ [][NextSerial]_vars

-----------------------------------------------------------------------------
(* Sweepers next to a writer: three save calls, one after the other (versions
   1, 3, 2 of stream S, one event each), and two publishOutstanding calls, while
   the clock runs. *)

SweepWrites == <<[sequence |-> "S", slot |-> 1], [sequence |-> "S", slot |-> 3],
                 [sequence |-> "S", slot |-> 2]>>

Ages == 0..MaxAge
\* The consumer of a load throws at none (0) or at one of the events of a batch.
Throws == 0..MaxBatch
Limits == 1..MaxLimit

InitSweep ==
    InitWith(<<"save", "save", "save", "publishOutstanding", "publishOutstanding">>,
             {defaultLoadBatchSize})

NextSweep ==
    \/ Tick
    \/ \E t \in T :
          /\ t \in DOMAIN SweepWrites
          /\ \A u \in 1..(t - 1) : tx[u].pc = "done"
          /\ save(t, UnitCommit(t, SweepWrites[t].sequence, SweepWrites[t].slot), clock)
    \/ \E t \in T : BEGIN(t)
    \/ \E t \in T : saveInsertEvent(t)
    \/ \E t \in T : saveInsertOutbox(t)
    \/ \E t \in T : publishOutstanding(t)
    \/ \E t \in T :
          \E minAgeSeconds \in Ages : \E limit \in Limits :
          doFindOutstanding(t, minAgeSeconds, limit)
    \/ \E t \in T : publishOutstandingNext(t)
    \/ \E t \in T : doPublishLock(t)
    \/ \E t \in T : doPublishEvents(t)
    \/ \E t \in T :
          \E ok \in BOOLEAN : doPublishPublish(t, ok)
    \/ \E t \in T : doPublishDelete(t)
    \/ \E t \in T : doPublishDeleteWait(t)
    \/ \E t \in T : deadlockDetected(t)
    \/ \E t \in T : COMMIT(t)
    \/ \E t \in T : ROLLBACK(t)

SpecSweep == InitSweep /\ [][NextSweep]_vars

-----------------------------------------------------------------------------
(* A failed publication and the sweep: two save calls (versions 1 and 2 of
   stream S, one event each), one publishSequence call and one
   publishOutstanding call, while the clock runs. The two can wait for each
   other's row locks. *)

RetryWrites == <<[sequence |-> "S", slot |-> 1], [sequence |-> "S", slot |-> 2]>>

InitRetry ==
    InitWith(<<"save", "save", "publishSequence", "publishOutstanding">>,
             {defaultLoadBatchSize})

NextRetry ==
    \/ Tick
    \/ \E t \in T :
          /\ t \in DOMAIN RetryWrites
          /\ save(t, UnitCommit(t, RetryWrites[t].sequence, RetryWrites[t].slot), clock)
    \/ \E t \in T : BEGIN(t)
    \/ \E t \in T : saveInsertEvent(t)
    \/ \E t \in T : saveInsertOutbox(t)
    \/ \E t \in T :
          \E location \in Locations({"S"}, 1..MaxSaveSlot) : publishSequence(t, location)
    \/ \E t \in T : publishSequenceSelect(t)
    \/ \E t \in T : publishOutstanding(t)
    \/ \E t \in T :
          \E minAgeSeconds \in Ages : \E limit \in Limits :
          doFindOutstanding(t, minAgeSeconds, limit)
    \/ \E t \in T : publishOutstandingNext(t)
    \/ \E t \in T : doPublishLock(t)
    \/ \E t \in T : doPublishEvents(t)
    \/ \E t \in T :
          \E ok \in BOOLEAN : doPublishPublish(t, ok)
    \/ \E t \in T : doPublishDelete(t)
    \/ \E t \in T : deadlockDetected(t)
    \/ \E t \in T : COMMIT(t)
    \/ \E t \in T : ROLLBACK(t)

SpecRetry == InitRetry /\ [][NextRetry]_vars

-----------------------------------------------------------------------------
(* A reader next to writers: two save calls of commits of one or more events of
   stream S and one load call, for every loadBatchSize in 1..MaxBatch. *)

InitLoad == InitWith(<<"save", "save", "load">>, 1..MaxBatch)

NextLoad ==
    \/ \E t \in T :
          \E commit \in Commits(t, {"S"}, 1..MaxSaveSlot, MaxEvents) : save(t, commit, clock)
    \/ \E t \in T : BEGIN(t)
    \/ \E t \in T : saveInsertEvent(t)
    \/ \E t \in T : saveInsertOutbox(t)
    \/ \E t \in T :
          \E since \in Locations({"S"}, 0..MaxSaveSlot) : load(t, since)
    \/ \E t \in T : \E throwsAt \in Throws : loadBatch(t, throwsAt)
    \/ \E t \in T : COMMIT(t)
    \/ \E t \in T : ROLLBACK(t)

SpecLoad == InitLoad /\ [][NextLoad]_vars

-----------------------------------------------------------------------------
(* Properties of save *)

Saves == {t \in T : tx[t].kind = "save"}
Publishers == {t \in T : tx[t].kind \in {"publishSequence", "publishOutstanding"}}

\* Two save calls of one (sequence, slot) whose transactions were open at the
\* same time.
Concurrent(a, b) == a \in tx[b].rivals \/ b \in tx[a].rivals

\* The rows of a save call: those it is to write, and those of them that are visible.
rowsOfSave(t) ==
    {eventRow(tx[t].commit, tx[t].commit.events[k], tx[t].commitTimestamp, t) :
        k \in DOMAIN tx[t].commit.events}
visibleEventsOf(t) == {row \in events : row.xmin = t}
visibleOutboxOf(t) == {row \in outbox : row.xmin = t}
publishedOutboxOf(t) ==
    {row \in UNION {tx[p].del : p \in {q \in Publishers : tx[q].result = "ok"}} :
        row.xmin = t}

\* C1: of two save calls that ran concurrently with the same (sequence, slot),
\* exactly one succeeded and the other failed with a unique violation.
C1_ExactlyOneSaveWins ==
    \A a \in Saves : \A b \in Saves :
        (/\ a # b
         /\ tx[a].pc = "done" /\ tx[b].pc = "done"
         /\ Concurrent(a, b))
        => \/ tx[a].result = "ok" /\ tx[b].result = "failed" /\ tx[b].error = "unique"
           \/ tx[b].result = "ok" /\ tx[a].result = "failed" /\ tx[a].error = "unique"

\* C2: save is atomic. While a save has not committed, and after it has failed,
\* no row of it is visible; once it has committed, all its event rows are visible,
\* and so is its outbox row until a committed publisher has deleted it.
C2_SaveAtomic ==
    \A t \in Saves :
        IF tx[t].result = "ok"
        THEN /\ visibleEventsOf(t) = rowsOfSave(t)
             /\ visibleOutboxOf(t) \cup publishedOutboxOf(t)
                    = {outboxRow(tx[t].commit, tx[t].now, t)}
        ELSE /\ visibleEventsOf(t) = {}
             /\ visibleOutboxOf(t) = {}

\* A save that hit a unique violation after it had inserted an event row has
\* rolled back, next to a save that committed.
C2_Witness ==
    \E t \in Saves : \E u \in Saves :
        /\ tx[t].result = "failed" /\ tx[t].error = "unique" /\ tx[t].i > 1
        /\ tx[u].result = "ok"
        /\ Concurrent(t, u)

-----------------------------------------------------------------------------
(* Properties of publishSequence *)

SequencePublishers == {t \in T : tx[t].kind = "publishSequence"}

\* The events that the publisher function of a call has taken without failing.
publishedBy(p) ==
    UNION {Range(tx[p].calls[k].events) :
              k \in {j \in DOMAIN tx[p].calls : tx[p].calls[j].ok}}

publisherFailed(p) == \E k \in DOMAIN tx[p].calls : ~tx[p].calls[k].ok

\* The events of the commit that an outbox row stands for.
eventsOfCommit(row) ==
    {rowToEvent(e) : e \in {x \in events : /\ x.sequence = row.sequence
                                            /\ x.slot = row.slot}}

\* The outbox rows that committed save calls have written.
savedOutbox ==
    {outboxRow(tx[t].commit, tx[t].now, t) : t \in {u \in Saves : tx[u].result = "ok"}}

\* C3: at-least-once. Every outbox row deleted by a committed publisher stands
\* for a commit whose events that publisher's publisher function has taken
\* without failing.
C3_DeletedWerePublished ==
    \A p \in Publishers :
        tx[p].result = "ok" =>
            \A row \in tx[p].del : eventsOfCommit(row) \subseteq publishedBy(p)

\* C4: a publishSequence whose publisher function failed goes to ROLLBACK and
\* fails; it has deleted nothing, the rows it had locked are still in the outbox,
\* and once it is over it holds no lock.
C4_PublisherFailureRollsBack ==
    \A p \in SequencePublishers :
        publisherFailed(p) =>
            /\ tx[p].pc \in {"rollback", "done"}
            /\ tx[p].del = {}
            /\ Range(tx[p].pendingSlots) \subseteq outbox
            /\ savedOutbox \subseteq outbox
            /\ tx[p].pc = "done" =>
                    /\ tx[p].result = "failed"
                    /\ tx[p].error = "publisher"
                    /\ tx[p].share = {} /\ tx[p].excl = {}

\* A publishSequence that had locked outbox rows has failed in its publisher
\* function and is over.
C4_Witness ==
    \E p \in SequencePublishers :
        /\ publisherFailed(p)
        /\ tx[p].pc = "done"
        /\ Len(tx[p].pendingSlots) > 0

\* C5: bounded deletion. After a publishSequence of (sequence, slot) has
\* committed, none of the outbox rows that its FOR UPDATE statement read is left,
\* every row it deleted is of that sequence with a slot up to that slot, and
\* every other saved outbox row is still there.
C5_BoundedDeletion ==
    \A p \in SequencePublishers :
        tx[p].result = "ok" =>
            /\ tx[p].seen \cap outbox = {}
            /\ \A row \in tx[p].del :
                    /\ row.sequence = tx[p].location.sequence
                    /\ row.slot <= tx[p].location.slot
            /\ savedOutbox \ tx[p].del \subseteq outbox

\* A publishSequence has committed a deletion while the outbox holds a row of
\* its stream above its slot and a row of the other stream.
C5_Witness ==
    \E p \in SequencePublishers :
        /\ tx[p].result = "ok"
        /\ tx[p].del # {}
        /\ \E row \in outbox : /\ row.sequence = tx[p].location.sequence
                                /\ row.slot > tx[p].location.slot
        /\ \E row \in outbox : row.sequence # tx[p].location.sequence

-----------------------------------------------------------------------------
(* Properties of two publishers of one stream *)

\* The events that the publisher function of a call was handed.
deliveredBy(p) == UNION {Range(tx[p].calls[k].events) : k \in DOMAIN tx[p].calls}

\* q comes after p: the FOR UPDATE statement of q read a row that p had locked,
\* and found it deleted by p's commit when it came to lock it.
After(q, p) ==
    /\ p # q
    /\ tx[p].result = "ok"
    /\ tx[q].pc \notin {"idle", "begin", "select"}
    /\ \E row \in Range(tx[p].pendingSlots) \cap tx[p].del :
          /\ row \in tx[q].seen
          /\ row \notin Range(tx[q].cand)
          /\ row \notin Range(tx[q].pendingSlots)

\* No outbox row is locked exclusively by two transactions, or exclusively by one
\* and shared by another.
ExclusiveLocksExclude ==
    \A p \in T : \A q \in T \ {p} :
        tx[p].excl \cap (tx[q].excl \cup tx[q].share) = {}

\* C9, as claimed: publishers of overlapping rows serialize, and the later one
\* neither delivers nor deletes the rows that the earlier one deleted.
C9_LaterNeitherDeliversNorDeletes ==
    /\ ExclusiveLocksExclude
    /\ \A p \in SequencePublishers : \A q \in SequencePublishers :
          After(q, p) =>
              \A row \in tx[p].del :
                  /\ row \notin tx[q].del
                  /\ eventsOfCommit(row) \cap deliveredBy(q) = {}

\* C9, amended: publishers of overlapping rows serialize, and the later one
\* neither locks nor deletes the rows that the earlier one deleted; it delivers
\* the events of such a row again only when the rows it locked lie on both sides
\* of it.
C9_LaterNeitherLocksNorDeletes ==
    /\ ExclusiveLocksExclude
    /\ \A p \in SequencePublishers : \A q \in SequencePublishers :
          After(q, p) =>
              \A row \in tx[p].del :
                  /\ row \notin tx[q].del
                  /\ row \notin Range(tx[q].pendingSlots)
                  /\ eventsOfCommit(row) \cap deliveredBy(q) # {} =>
                        /\ Len(tx[q].pendingSlots) > 0
                        /\ tx[q].pendingSlots[1].slot < row.slot
                        /\ tx[q].pendingSlots[Len(tx[q].pendingSlots)].slot > row.slot

\* A publisher has committed a deletion of its own after it had waited for a
\* row that the earlier publisher deleted.
C9_Witness ==
    \E p \in SequencePublishers : \E q \in SequencePublishers :
        /\ After(q, p)
        /\ tx[q].result = "ok"
        /\ tx[q].del # {}

-----------------------------------------------------------------------------
(* Properties of publishOutstanding *)

Sweepers == {t \in T : tx[t].kind = "publishOutstanding"}

\* C7: no publishOutstanding call waits for a row lock that another
\* publishOutstanding call holds.
C7_SweepersNeverWait ==
    \A a \in Sweepers : waitsFor(a) \cap Sweepers = {}

\* C8: no outbox row is in the rows found by two publishOutstanding calls whose
\* transactions are open at the same time.
C8_FoundRowsDisjoint ==
    \A a \in Sweepers : \A b \in Sweepers \ {a} :
        (Open(a) /\ Open(b)) => tx[a].found \cap tx[b].found = {}

-----------------------------------------------------------------------------
(* Properties of a failed publication and the sweep after it *)

\* The outbox rows of the commit that a failed publishSequence call was for:
\* the row of its own (sequence, slot), which it had locked.
failedEntry(p) ==
    IF publisherFailed(p) /\ tx[p].pc = "done"
    THEN {row \in Range(tx[p].pendingSlots) : row.slot = tx[p].location.slot}
    ELSE {}

\* A sweep that started after the failed call was over, found the row (its age
\* above the threshold, within the limit), and committed.
sweptAfter(w, p, row) ==
    /\ p \in tx[w].earlier
    /\ row \in tx[w].found
    /\ tx[w].result = "ok"

ascendingIndex(batch) ==
    \A j \in DOMAIN batch : \A k \in DOMAIN batch :
        j < k => batch[j].location.index < batch[k].location.index

\* The commit of the row is the only one its stream holds.
onlyCommit(row) ==
    \A e \in events : e.sequence = row.sequence => e.slot = row.slot

\* The stream of the failed call holds no commit but those whose outbox rows
\* the call had locked: nothing else was written to it, before or since.
noOtherCommit(p) ==
    \A e \in events :
        e.sequence = tx[p].location.sequence =>
            \E row \in Range(tx[p].pendingSlots) : row.slot = e.slot

\* C10, as claimed: after a publishSequence failed in its publisher function, the
\* outbox row of its commit is still there, and a later sweep that finds it hands
\* its publisher function the batch of the failed attempt and deletes the row
\* (stated for the runs in which nothing else is written to the stream).
C10_SweepRedeliversSameBatch ==
    \A p \in SequencePublishers : \A row \in failedEntry(p) :
        /\ (\A w \in Sweepers : tx[w].result # "ok") => row \in outbox
        /\ \A w \in Sweepers :
              (sweptAfter(w, p, row) /\ noOtherCommit(p)) =>
                  /\ row \in tx[w].del
                  /\ \E k \in DOMAIN tx[w].calls :
                        /\ tx[w].calls[k].ok
                        /\ tx[w].calls[k].events = tx[p].calls[1].events

\* C10, amended: ... a later sweep that finds it hands its publisher function the
\* events of that commit, every batch in ascending index order, and deletes the
\* row; the batch is that of the failed attempt when the stream holds no other
\* commit.
C10_SweepRedeliversCommit ==
    \A p \in SequencePublishers : \A row \in failedEntry(p) :
        /\ (\A w \in Sweepers : tx[w].result # "ok") => row \in outbox
        /\ \A w \in Sweepers :
              sweptAfter(w, p, row) =>
                  /\ row \in tx[w].del
                  /\ eventsOfCommit(row) # {}
                  /\ eventsOfCommit(row) \subseteq publishedBy(w)
                  /\ \A k \in DOMAIN tx[w].calls : ascendingIndex(tx[w].calls[k].events)
                  /\ onlyCommit(row) =>
                        \E k \in DOMAIN tx[w].calls :
                            /\ tx[w].calls[k].ok
                            /\ tx[w].calls[k].events = tx[p].calls[1].events

\* A sweep has committed after it found the row of a failed publishSequence.
C10_Witness ==
    \E p \in SequencePublishers : \E row \in failedEntry(p) : \E w \in Sweepers :
        sweptAfter(w, p, row) /\ row \in tx[w].del

-----------------------------------------------------------------------------
(* Properties of load *)

Loads == {t \in T : tx[t].kind = "load"}

\* The events of the stream above the resume point, in index order.
eventsSince(since) ==
    rowsToEvents(orderByIndex({row \in events : /\ row.sequence = since.sequence
                                                /\ row.slot > since.slot}))

\* C6: a load of a stream that was not written since the call started has handed
\* its consumer every event of the stream whose slot is above the resume point,
\* once each, in ascending index order.
C6_LoadDeliversEveryEventOnce ==
    \A l \in Loads :
        (tx[l].result = "ok" /\ ~tx[l].written) =>
            tx[l].processed = eventsSince(tx[l].since)

-----------------------------------------------------------------------------
(* Properties of a publishOutstanding whose publisher function fails *)

\* C11: once the publisher function of a publishOutstanding call has failed, the
\* call hands it nothing more and takes no further location; it goes to ROLLBACK,
\* which leaves every outbox row that the call had deleted in the outbox, unlocked,
\* and the call is over as failed with the error of the publisher function.
C11_SweepFailureRollsBack ==
    [][\A w \in Sweepers :
          /\ publisherFailed(w)' => tx'[w].pc \in {"rollback", "done"}
          /\ publisherFailed(w) =>
                /\ tx'[w].calls = tx[w].calls
                /\ tx'[w].location = tx[w].location
                /\ tx'[w].outboxItems = tx[w].outboxItems
          /\ (publisherFailed(w) /\ tx[w].pc = "rollback" /\ tx'[w].pc = "done") =>
                /\ tx[w].del \subseteq outbox'
                /\ tx'[w].del = {}
                /\ tx'[w].share = {} /\ tx'[w].excl = {}
                /\ tx'[w].result = "failed"
                /\ tx'[w].error = "publisher"]_vars

\* A publishOutstanding call is over as failed: its publisher function took the
\* events of one location, whose outbox rows the call then deleted, and failed
\* on a later location.
C11_Witness ==
    \E w \in Sweepers :
        /\ tx[w].pc = "done"
        /\ tx[w].result = "failed"
        /\ Len(tx[w].calls) >= 2
        /\ tx[w].calls[1].ok
        /\ ~tx[w].calls[Len(tx[w].calls)].ok

-----------------------------------------------------------------------------
(* Properties of the outbox key *)

\* C12: no two rows of the outbox have the same (sequence, slot), and no two
\* save calls of the same (sequence, slot) have both committed, whether or not
\* the outbox row of the first has been deleted by a publisher meanwhile.
C12_CommitVersionNeverReused ==
    /\ \A r1 \in outbox : \A r2 \in outbox : outboxKey(r1) = outboxKey(r2) => r1 = r2
    /\ \A a \in Saves : \A b \in Saves \ {a} :
          (tx[a].result = "ok" /\ tx[b].result = "ok") =>
              tx[a].commit.location # tx[b].commit.location

-----------------------------------------------------------------------------
(* Failures of the steps of transaction() that no operation of the store
   causes by itself: the pool, the connection, the server. *)

PoolSize == 2       \* connections of the pool

\* pool.connect() resolves when the pool has a connection to hand out
poolHasRoom == Cardinality({t \in T : tx[t].connection = "held"}) < PoolSize

\* pool.connect() rejects: it is outside the try block, the call rejects with its
\* error, and no connection was handed out.
connectFails(t) ==
    /\ tx[t].pc = "idle"
    /\ tx' = [tx EXCEPT ![t] = [@ EXCEPT !.pc = "done", !.result = "failed",
                                         !.error = "connect", !.thrown = "connect"]]
    /\ UNCHANGED <<events, outbox, clock, loadBatchSize>>

\* BEGIN fails on the connection handed out: catch
beginFails(t) ==
    /\ tx[t].pc = "begin"
    /\ tx' = [tx EXCEPT ![t] = catchError(@, "begin")]
    /\ UNCHANGED <<events, outbox, clock, loadBatchSize>>

\* A statement of the work function fails (the connection, the server): catch
statementFails(t) ==
    /\ tx[t].pc \in {"insertEvent", "query", "select", "lock", "publish", "delete",
                     "deleteWait", "find"}
    /\ tx' = [tx EXCEPT ![t] = aborted(@, "statement")]
    /\ UNCHANGED <<events, outbox, clock, loadBatchSize>>

\* A faulty variant of commitFails: the failure of COMMIT is not caught, the call
\* rejects with it and releases the connection.
commitFailsUncaught(t, applied) ==
    /\ tx[t].pc = "commit"
    /\ ~applied
    /\ tx' = [tx EXCEPT ![t] = [@ EXCEPT !.pc = "done", !.result = "failed",
                                         !.error = "commit", !.thrown = "commit",
                                         !.connection = "released", !.released = @ + 1,
                                         !.insEvents = {}, !.insOutbox = {},
                                         !.del = {}, !.share = {}, !.excl = {}]]
    /\ UNCHANGED <<events, outbox, clock, loadBatchSize>>

\* connection.query('COMMIT') rejects: catch. The server has aborted the
\* transaction and nothing is committed, or it has committed the transaction
\* and its reply did not reach the client (applied); the transaction is over in
\* either case.
commitFails(t, applied) ==
    /\ tx[t].pc = "commit"
    /\ events' = IF applied THEN eventsAfterCommit(tx[t]) ELSE events
    /\ outbox' = IF applied THEN outboxAfterCommit(tx[t]) ELSE outbox
    /\ tx' = [u \in T |->
                IF u = t THEN aborted(tx[t], "commit")
                ELSE IF applied /\ Overwritten(u, tx[t])
                THEN [tx[u] EXCEPT !.written = TRUE]
                ELSE tx[u]]
    /\ UNCHANGED <<clock, loadBatchSize>>

\* ROLLBACK fails in the catch block: its error leaves the block in place of the
\* caught one, and finally releases the connection. The server ends the
\* transaction of a connection it has lost.
rollbackFails(t) ==
    /\ tx[t].pc = "rollback"
    /\ tx' = [tx EXCEPT ![t] = [@ EXCEPT !.pc = "done", !.result = "failed",
                                         !.thrown = "rollback",
                                         !.rollbacks = @ + 1,
                                         !.connection = "released", !.released = @ + 1,
                                         !.insEvents = {}, !.insOutbox = {},
                                         !.del = {}, !.share = {}, !.excl = {}]]
    /\ UNCHANGED <<events, outbox, clock, loadBatchSize>>

-----------------------------------------------------------------------------
(* The four operations on a pool of PoolSize connections, every step of which
   can fail, while the clock runs up to MaxAge: three calls, which are two save calls and a
   load call, or a save call, a publishSequence call and a publishOutstanding
   call, or a save call, a load call and a publishOutstanding call. The first
   save is of version 1 of stream S with the event of index 1, the second of
   version 2 with the events of indices 1 and 2, so that the later of the two
   hits a unique violation. A call that finds the pool exhausted waits in
   pool.connect(); save has read new Date() before that, so its commitTimestamp
   is the clock at the call, at or before the time its connection arrives. *)

FaultWrites(t) == IF t = 1 THEN UnitCommit(t, "S", 1) ELSE CommitOf(t, "S", 2, 1, 2)

FaultCalls == {<<"save", "save", "load">>,
               <<"save", "publishSequence", "publishOutstanding">>,
               <<"save", "load", "publishOutstanding">>}

InitFaults == \E kinds \in FaultCalls : InitWith(kinds, {defaultLoadBatchSize})

NextFaults ==
    \/ clock < MaxAge /\ Tick
    \/ \E t \in T :
          /\ t \in 1..2
          /\ poolHasRoom
          /\ \E commitTimestamp \in 0..clock : save(t, FaultWrites(t), commitTimestamp)
    \/ \E t \in T : BEGIN(t)
    \/ \E t \in T : saveInsertEvent(t)
    \/ \E t \in T : saveInsertOutbox(t)
    \/ \E t \in T :
          /\ poolHasRoom
          /\ load(t, [sequence |-> "S", slot |-> 0])
    \/ \E t \in T : \E throwsAt \in Throws : loadBatch(t, throwsAt)
    \/ \E t \in T :
          /\ poolHasRoom
          /\ \E location \in Locations({"S"}, 1..MaxSaveSlot) : publishSequence(t, location)
    \/ \E t \in T : publishSequenceSelect(t)
    \/ \E t \in T :
          /\ poolHasRoom
          /\ publishOutstanding(t)
    \/ \E t \in T :
          \E minAgeSeconds \in Ages : \E limit \in Limits :
          doFindOutstanding(t, minAgeSeconds, limit)
    \/ \E t \in T : publishOutstandingNext(t)
    \/ \E t \in T : doPublishLock(t)
    \/ \E t \in T : doPublishEvents(t)
    \/ \E t \in T :
          \E ok \in BOOLEAN : doPublishPublish(t, ok)
    \/ \E t \in T : doPublishDelete(t)
    \/ \E t \in T : connectFails(t)
    \/ \E t \in T : beginFails(t)
    \/ \E t \in T : statementFails(t)
    \/ \E t \in T : \E applied \in BOOLEAN : commitFails(t, applied)
    \/ \E t \in T : rollbackFails(t)
    \/ \E t \in T : COMMIT(t)
    \/ \E t \in T : ROLLBACK(t)

SpecFaults == InitFaults /\ [][NextFaults]_vars

-----------------------------------------------------------------------------
(* Properties of the event log *)

\* The step is the COMMIT of a save call, which adds the event rows of the call.
appends(t) ==
    /\ tx[t].kind = "save"
    /\ tx[t].pc = "commit"
    /\ \/ tx'[t].pc = "done" /\ tx'[t].result = "ok"
       \/ tx'[t].pc = "rollback" /\ tx'[t].error = "commit"
    /\ events' = events \cup rowsOfSave(t)

\* C13: the event log is append-only. Every step leaves the committed event rows
\* in the log as they are, no two rows of the log have the same (sequence,
\* index), and the only steps that change the log are the COMMITs of save calls
\* (a COMMIT that the server applied, whether or not its reply reached the
\* call): no step of load, publishSequence or publishOutstanding changes it, and
\* neither does a save whose transaction was not committed.
C13_EventLogAppendOnly ==
    [][/\ events \subseteq events'
       /\ \A r1 \in events' : \A r2 \in events' : eventKey(r1) = eventKey(r2) => r1 = r2
       /\ events' # events => \E t \in Saves : appends(t)]_vars

\* The log holds the events of a committed save, a publisher has committed the
\* deletion of the outbox row of that save, and another call has failed.
C13_Witness ==
    /\ events # {}
    /\ \E p \in Publishers : tx[p].result = "ok" /\ tx[p].del # {}
    /\ \E t \in T : tx[t].result = "failed"

-----------------------------------------------------------------------------
(* Writers and the clock: two save calls of commits of one or more events of
   stream S, each of which begins its transaction when it has got its
   connection or any time later, while the clock runs. *)

InitClock == InitWith(<<"save", "save">>, {defaultLoadBatchSize})

NextClock ==
    \/ Tick
    \/ \E t \in T :
          \E commit \in Commits(t, {"S"}, 1..MaxSaveSlot, MaxEvents) :
          \E commitTimestamp \in 0..MaxClock : save(t, commit, commitTimestamp)
    \/ \E t \in T : BEGIN(t)
    \/ \E t \in T : saveInsertEvent(t)
    \/ \E t \in T : saveInsertOutbox(t)
    \/ \E t \in T : COMMIT(t)
    \/ \E t \in T : ROLLBACK(t)

SpecClock == InitClock /\ [][NextClock]_vars

\* C14: the event rows and the outbox row of a committed commit have the same
\* committed_at.
C14_OneCommittedAt ==
    \A t \in Saves :
        tx[t].result = "ok" =>
            \A e \in visibleEventsOf(t) : \A o \in visibleOutboxOf(t) :
                e.committed_at = o.committed_at

-----------------------------------------------------------------------------
(* Properties of transaction() *)

\* C15: a call holds a connection exactly from pool.connect() to release(), so
\* whenever its transaction is open; a call that is over has released the
\* connection it got exactly once (and none, when pool.connect() failed), holds
\* no row lock, and, when it failed after it got
\* the connection (in BEGIN, in a statement, in the publisher function or in
\* COMMIT), has issued ROLLBACK once before the release; a call that succeeded
\* has issued none.
C15_ConnectionReleasedOnce ==
    \A t \in T :
        /\ tx[t].released <= 1
        /\ tx[t].connection = "held" <=> InProgress(t)
        /\ Open(t) => tx[t].connection = "held"
        /\ tx[t].pc = "idle" => tx[t].connection = "none" /\ tx[t].released = 0
        /\ tx[t].pc = "done" =>
              /\ tx[t].share = {} /\ tx[t].excl = {}
              /\ IF tx[t].error = "connect"
                 THEN tx[t].connection = "none" /\ tx[t].released = 0
                 ELSE tx[t].connection = "released" /\ tx[t].released = 1
              /\ tx[t].rollbacks =
                    (IF tx[t].result = "failed" /\ tx[t].error # "connect" THEN 1 ELSE 0)

\* The calls are over: one failed in COMMIT, another failed otherwise after it
\* had got its connection, and one succeeded.
C15_Witness ==
    /\ \A t \in T : tx[t].pc = "done"
    /\ \E t \in T : tx[t].error = "commit"
    /\ \E t \in T : tx[t].error \in {"begin", "statement", "publisher", "unique"}
    /\ \E t \in T : tx[t].result = "ok"

\* C16: a call one of whose steps failed rejects with the error of that step,
\* also when ROLLBACK failed after it; a call that resolves had no failing step.
C16_NoErrorSwallowed ==
    \A t \in T :
        tx[t].pc = "done" =>
            /\ tx[t].error # "none" => tx[t].result = "failed" /\ tx[t].thrown = tx[t].error
            /\ tx[t].result = "ok" => tx[t].error = "none" /\ tx[t].thrown = "none"

-----------------------------------------------------------------------------
(* The store with aggregate names (the third PostgresEventStore of the source
   file): event rows, outbox rows and locations carry an aggregate name, and
   load and doPublish select by it. Its transaction() is that of the first
   store, and so are the row locks. The tables are those of events.sql with a
   column aggregate_name, the outbox keyed by (sequence, aggregate_name, slot). *)

Aggregates == {"Customer", "Product"}

aggregateRowToEvent(row) ==
    [id |-> row.id,
     location |-> [aggregateName |-> row.aggregate_name, sequence |-> row.sequence,
                   index |-> row.index]]

aggregateRowsToEvents(rows) == [k \in DOMAIN rows |-> aggregateRowToEvent(rows[k])]

aggregateOutboxRowToLocation(row) ==
    [aggregateName |-> row.aggregate_name, sequence |-> row.sequence, slot |-> row.slot]

\* A Commit of aggregate name a whose n events, of indices from lo, name the
\* aggregate e.
AggregateCommitOf(t, a, e, s, v, lo, n) ==
    [location |-> [aggregateName |-> a, sequence |-> s, slot |-> v],
     events |-> [k \in 1..n |->
                   [id |-> <<t, k>>,
                    location |-> [aggregateName |-> e, sequence |-> s,
                                  index |-> lo + k - 1]]]]

\* The commits of save call t, of one event of index t. The first call saves
\* version 1 of stream S for Customer; the second saves version 1 of S for
\* either aggregate name, and its event names either aggregate.
AggregateCommits(t) ==
    IF t = 1 THEN {AggregateCommitOf(t, "Customer", "Customer", "S", 1, t, 1)}
    ELSE {AggregateCommitOf(t, a, e, "S", 1, t, 1) : a \in Aggregates, e \in Aggregates}

AggregateLocations(slots) ==
    {[aggregateName |-> a, sequence |-> "S", slot |-> v] : a \in Aggregates, v \in slots}

aggregateEventRow(commit, event, commitTimestamp, t) ==
    [aggregate_name |-> event.location.aggregateName,
     id |-> event.id, sequence |-> commit.location.sequence,
     slot |-> commit.location.slot, index |-> event.location.index,
     committed_at |-> commitTimestamp, xmin |-> t]

aggregateOutboxRow(commit, now, t) ==
    [aggregate_name |-> commit.location.aggregateName,
     sequence |-> commit.location.sequence, slot |-> commit.location.slot,
     committed_at |-> now, xmin |-> t]

\* save: commitTimestamp, pool.connect()
aggregateSave(t, commit, commitTimestamp) ==
    /\ tx[t].kind = "save"
    /\ tx[t].pc = "idle"
    /\ commitTimestamp \in 0..clock
    /\ tx' = [tx EXCEPT ![t] = [connect(@) EXCEPT
                                    !.commit = commit,
                                    !.commitTimestamp = commitTimestamp,
                                    !.i = 1,
                                    !.rivals = rivalsOf(t, commit)]]
    /\ UNCHANGED <<events, outbox, clock, loadBatchSize>>

aggregateSaveInsertEvent(t) ==
    /\ tx[t].pc = "insertEvent"
    /\ tx[t].i <= Len(tx[t].commit.events)
    /\ LET r == tx[t]
           row == aggregateEventRow(r.commit, r.commit.events[r.i], r.commitTimestamp, t)
       IN /\ eventInsertBlockers(t, eventKey(row)) = {}
          /\ tx' = [tx EXCEPT ![t] =
                       IF eventKeyTaken(t, eventKey(row))
                       THEN aborted(r, "unique")
                       ELSE [r EXCEPT !.insEvents = @ \cup {row}, !.i = @ + 1]]
    /\ UNCHANGED <<events, outbox, clock, loadBatchSize>>

aggregateSaveInsertOutbox(t) ==
    /\ tx[t].pc = "insertEvent"
    /\ tx[t].i > Len(tx[t].commit.events)
    /\ LET r == tx[t]
           row == aggregateOutboxRow(r.commit, r.now, t)
       IN /\ outboxInsertBlockers(t, outboxKey(row)) = {}
          /\ tx' = [tx EXCEPT ![t] =
                       IF outboxKeyTaken(t, outboxKey(row))
                       THEN aborted(r, "unique")
                       ELSE [r EXCEPT !.insOutbox = @ \cup {row}, !.pc = "commit"]]
    /\ UNCHANGED <<events, outbox, clock, loadBatchSize>>

\* load: pool.connect(); slot = since.slot
aggregateLoad(t, since) ==
    /\ tx[t].kind = "load"
    /\ tx[t].pc = "idle"
    /\ tx' = [tx EXCEPT ![t] = [connect(@) EXCEPT
                                    !.since = since, !.slot = since.slot]]
    /\ UNCHANGED <<events, outbox, clock, loadBatchSize>>

\* A faulty variant of aggregateEventRowsQuery: no "aggregate_name" = $1.
aggregateEventRowsQueryAny(t, since, slot, limit) ==
    Limit(orderByIndex({row \in events \cup tx[t].insEvents :
                            /\ row.sequence = since.sequence
                            /\ row.slot > slot}),
          limit)

\* SELECT ... FROM eventstore.events WHERE "aggregate_name" = $1
\*   AND "sequence" = $2 AND "slot" > $3 ORDER BY index LIMIT $4
aggregateEventRowsQuery(t, since, slot, limit) ==
    Limit(orderByIndex({row \in events \cup tx[t].insEvents :
                            /\ row.aggregate_name = since.aggregateName
                            /\ row.sequence = since.sequence
                            /\ row.slot > slot}),
          limit)

\* One turn of the do ... while loop: the query, and the for loop over its
\* rows. processorFunction takes every row (throwsAt = 0) or throws when it is
\* handed row throwsAt of the batch: the error leaves the work function.
aggregateLoadBatch(t, throwsAt) ==
    /\ tx[t].pc = "query"
    /\ LET r == tx[t]
           eventRows == aggregateEventRowsQuery(t, r.since, r.slot, loadBatchSize)
           processedEventCount == Len(eventRows)
           \* the rows handed to processorFunction, and those of them for which
           \* the body of the for loop ran to its end
           handed == IF throwsAt = 0 THEN eventRows ELSE SubSeq(eventRows, 1, throwsAt)
           done == IF throwsAt = 0 THEN eventRows ELSE SubSeq(eventRows, 1, throwsAt - 1)
           lastRow == done[Len(done)]
           after == IF Len(done) = 0 THEN r
                    ELSE [r EXCEPT !.slot = lastRow.slot,
                                   !.lastEvent = aggregateRowToEvent(lastRow).location,
                                   !.lastCommit =
                                       [sequence |-> aggregateRowToEvent(lastRow).location.sequence,
                                        slot |-> lastRow.slot]]
           looped == [after EXCEPT !.processed = @ \o aggregateRowsToEvents(handed),
                                   !.batches = @ + 1]
       IN /\ throwsAt <= processedEventCount
          /\ tx' = [tx EXCEPT ![t] =
                       IF throwsAt > 0 THEN catchError(looped, "consumer")
                       ELSE [looped EXCEPT !.pc = IF processedEventCount = loadBatchSize
                                                  THEN "query" ELSE "commit"]]
    /\ UNCHANGED <<events, outbox, clock, loadBatchSize>>

\* SELECT ... FROM eventstore.outbox WHERE aggregate_name = $1 AND sequence = $2
\*   AND slot <= $3 ORDER BY slot FOR UPDATE: the rows it reads
aggregatePendingSlotsQuery(t, location) ==
    orderBySlot({row \in visibleOutbox(t) :
                    /\ row.aggregate_name = location.aggregateName
                    /\ row.sequence = location.sequence
                    /\ row.slot <= location.slot})

\* SELECT ... FROM eventstore.events WHERE aggregate_name = $1 AND sequence = $2
\*   AND slot >= $3 AND slot <= $4 ORDER BY index
aggregatePendingEventsQuery(t, location, first, last) ==
    orderByIndex({row \in events \cup tx[t].insEvents :
                    /\ row.aggregate_name = location.aggregateName
                    /\ row.sequence = location.sequence
                    /\ row.slot >= first.slot
                    /\ row.slot <= last.slot})

\* DELETE FROM eventstore.outbox WHERE aggregate_name = $1 AND sequence = $2
\*   AND slot >= $3 AND slot <= $4: the rows it reads
aggregateDeleteQuery(t, location, first, last) ==
    {row \in visibleOutbox(t) :
        /\ row.aggregate_name = location.aggregateName
        /\ row.sequence = location.sequence
        /\ row.slot >= first.slot
        /\ row.slot <= last.slot}

\* The FOR UPDATE statement starts: it reads the outbox.
aggregateDoPublishSelect(t, r, location) ==
    LET rows == aggregatePendingSlotsQuery(t, location)
    IN tx' = [tx EXCEPT ![t] = locked([r EXCEPT !.location = location,
                                                !.cand = rows,
                                                !.seen = Range(rows),
                                                !.pendingSlots = <<>>,
                                                !.target = <<>>])]

aggregateDoPublishEvents(t) ==
    /\ tx[t].pc = "publish"
    /\ LET r == tx[t]
           first == r.pendingSlots[1]
           last == r.pendingSlots[Len(r.pendingSlots)]
       IN tx' = [tx EXCEPT ![t] =
                    [r EXCEPT !.pendingEvents =
                                  aggregatePendingEventsQuery(t, r.location, first, last),
                              !.pc = "publisher"]]
    /\ UNCHANGED <<events, outbox, clock, loadBatchSize>>

aggregateDoPublishPublish(t, ok) ==
    /\ tx[t].pc = "publisher"
    /\ tx' = [tx EXCEPT ![t] =
                 publisherDone(tx[t], aggregateRowsToEvents(tx[t].pendingEvents), ok)]
    /\ UNCHANGED <<events, outbox, clock, loadBatchSize>>

aggregateDoPublishDelete(t) ==
    /\ tx[t].pc = "delete"
    /\ LET r == tx[t]
           first == r.pendingSlots[1]
           last == r.pendingSlots[Len(r.pendingSlots)]
           rows == aggregateDeleteQuery(t, r.location, first, last)
       IN \E target \in scanOrders(rows) :
             tx' = [tx EXCEPT ![t] = deleting(t, [r EXCEPT !.target = target])]
    /\ UNCHANGED <<events, outbox, clock, loadBatchSize>>

\* publishSequence: pool.connect()
aggregatePublishSequence(t, location) ==
    /\ tx[t].kind = "publishSequence"
    /\ tx[t].pc = "idle"
    /\ tx' = [tx EXCEPT ![t] = [connect(@) EXCEPT !.location = location]]
    /\ UNCHANGED <<events, outbox, clock, loadBatchSize>>

aggregatePublishSequenceSelect(t) ==
    /\ tx[t].kind = "publishSequence"
    /\ tx[t].pc = "select"
    /\ aggregateDoPublishSelect(t, tx[t], tx[t].location)
    /\ UNCHANGED <<events, outbox, clock, loadBatchSize>>

\* SELECT aggregate_name, sequence, slot FROM eventstore.outbox
\*   WHERE committed_at < (NOW() - $1::interval) LIMIT $2 FOR SHARE SKIP LOCKED
aggregateDoFindOutstanding(t, minAgeSeconds, limit) ==
    /\ tx[t].pc = "find"
    /\ LET r == tx[t]
           rows == {row \in visibleOutbox(t) :
                       /\ outstanding(row, r.now, minAgeSeconds)
                       /\ lockableForShare(t, row)}
           n == IF Cardinality(rows) < limit THEN Cardinality(rows) ELSE limit
       IN \E outboxRows \in SUBSET rows :
            /\ Cardinality(outboxRows) = n
            /\ tx' = [tx EXCEPT ![t] =
                         return([r EXCEPT !.share = @ \cup outboxRows,
                                          !.found = outboxRows,
                                          !.outboxItems =
                                              {aggregateOutboxRowToLocation(row) :
                                                  row \in outboxRows}])]
    /\ UNCHANGED <<events, outbox, clock, loadBatchSize>>

\* for (let location of outboxItems) { await this.doPublish(client, location, publisher); }
aggregatePublishOutstandingNext(t) ==
    /\ tx[t].kind = "publishOutstanding"
    /\ tx[t].pc = "select"
    /\ \E location \in tx[t].outboxItems :
          aggregateDoPublishSelect(t, [tx[t] EXCEPT !.outboxItems = @ \ {location}], location)
    /\ UNCHANGED <<events, outbox, clock, loadBatchSize>>

\* The calls of a run: two save calls next to a load, a publishSequence or a
\* publishOutstanding call.
AggregateCalls == {<<"save", "save", "load">>,
                   <<"save", "save", "publishSequence">>,
                   <<"save", "save", "publishOutstanding">>}

InitAggregate ==
    \E kinds \in AggregateCalls :
        InitWith(kinds, IF kinds[3] = "load" THEN 1..MaxBatch ELSE {defaultLoadBatchSize})

NextAggregate ==
    \/ clock < MaxAge /\ Tick
    \/ \E t \in T :
          \E commit \in AggregateCommits(t) : aggregateSave(t, commit, clock)
    \/ \E t \in T : BEGIN(t)
    \/ \E t \in T : aggregateSaveInsertEvent(t)
    \/ \E t \in T : aggregateSaveInsertOutbox(t)
    \/ \E t \in T :
          \E since \in AggregateLocations(0..MaxSaveSlot) : aggregateLoad(t, since)
    \/ \E t \in T : \E throwsAt \in Throws : aggregateLoadBatch(t, throwsAt)
    \/ \E t \in T :
          \E location \in AggregateLocations(1..MaxSaveSlot) :
          aggregatePublishSequence(t, location)
    \/ \E t \in T : aggregatePublishSequenceSelect(t)
    \/ \E t \in T : publishOutstanding(t)
    \/ \E t \in T :
          \E minAgeSeconds \in Ages : \E limit \in Limits :
          aggregateDoFindOutstanding(t, minAgeSeconds, limit)
    \/ \E t \in T : aggregatePublishOutstandingNext(t)
    \/ \E t \in T : doPublishLock(t)
    \/ \E t \in T : aggregateDoPublishEvents(t)
    \/ \E t \in T :
          \E ok \in BOOLEAN : aggregateDoPublishPublish(t, ok)
    \/ \E t \in T : aggregateDoPublishDelete(t)
    \/ \E t \in T : COMMIT(t)
    \/ \E t \in T : ROLLBACK(t)

SpecAggregate == InitAggregate /\ [][NextAggregate]_vars

\* The aggregate name under which a save call saved the event of an id, and
\* the outbox row of its commit.
savedUnder(id) == tx[id[1]].commit.events[id[2]].location.aggregateName
outboxSavedUnder(row) == tx[row.xmin].commit.location.aggregateName

\* C17: the events handed to the consumer of a load, and to the publisher
\* function of a publishSequence or of a sweep, were saved under the aggregate
\* name of the location of that call, and so were the outbox rows that the
\* call deleted.
C17_AggregateIsolation ==
    /\ \A l \in Loads : \A e \in Range(tx[l].processed) :
          savedUnder(e.id) = tx[l].since.aggregateName
    /\ \A p \in Publishers :
          \A k \in DOMAIN tx[p].calls : \A e \in Range(tx[p].calls[k].events) :
              /\ savedUnder(e.id) = e.location.aggregateName
              /\ tx[p].kind = "publishSequence" =>
                     savedUnder(e.id) = tx[p].location.aggregateName
    /\ \A p \in SequencePublishers :
          \A row \in tx[p].del : outboxSavedUnder(row) = tx[p].location.aggregateName

\* Stream S holds events saved under both aggregate names; a load or a
\* publishSequence for one of the names has handed on events, and a
\* publishSequence has deleted an outbox row.
C17_Witness ==
    /\ \A a \in Aggregates : \E row \in events : row.aggregate_name = a
    /\ \/ \E l \in Loads : tx[l].result = "ok" /\ tx[l].processed # <<>>
       \/ \E p \in SequencePublishers :
             tx[p].result = "ok" /\ deliveredBy(p) # {} /\ tx[p].del # {}

-----------------------------------------------------------------------------
(* Two readers next to writers: two save calls (version 1 of stream S with the
   events of indices 1 and 2, version 2 with the event of index 3) and two load
   calls, for every loadBatchSize in 1..MaxBatch. *)

ReplayWrites(t) == IF t = 1 THEN CommitOf(t, "S", 1, 1, 2) ELSE CommitOf(t, "S", 2, 3, 1)

InitReplay == InitWith(<<"save", "save", "load", "load">>, 1..MaxBatch)

NextReplay ==
    \/ \E t \in T :
          /\ t \in 1..2
          /\ save(t, ReplayWrites(t), clock)
    \/ \E t \in T : BEGIN(t)
    \/ \E t \in T : saveInsertEvent(t)
    \/ \E t \in T : saveInsertOutbox(t)
    \/ \E t \in T :
          \E since \in Locations({"S"}, 0..1) : load(t, since)
    \/ \E t \in T : \E throwsAt \in Throws : loadBatch(t, throwsAt)
    \/ \E t \in T : COMMIT(t)
    \/ \E t \in T : ROLLBACK(t)

SpecReplay == InitReplay /\ [][NextReplay]_vars

\* C18: two load calls from the same resume point, with no save of the stream
\* committed since the earlier of them started, have handed their consumers the
\* same events in the same order and have returned the same result: of the
\* results that each query of a load may return, ORDER BY index over the key
\* (sequence, index) leaves one, and a load keeps nothing from one call to the next.
C18_ReplayIdempotent ==
    \A l1 \in Loads : \A l2 \in Loads :
        (/\ tx[l1].result = "ok" /\ tx[l2].result = "ok"
         /\ tx[l1].since = tx[l2].since
         /\ ~tx[l1].written /\ ~tx[l2].written)
        => /\ tx[l1].processed = tx[l2].processed
           /\ tx[l1].lastCommit = tx[l2].lastCommit
           /\ tx[l1].lastEvent = tx[l2].lastEvent

\* Two load calls from the same resume point have each handed on two events or
\* more, with no save committed since.
C18_Witness ==
    \E l1 \in Loads : \E l2 \in Loads \ {l1} :
        /\ tx[l1].result = "ok" /\ tx[l2].result = "ok"
        /\ tx[l1].since = tx[l2].since
        /\ ~tx[l1].written /\ ~tx[l2].written
        /\ Len(tx[l1].processed) >= 2
        /\ Len(tx[l2].processed) >= 2

-----------------------------------------------------------------------------
(* Properties of the result of load *)

\* The location that stands for an absent lastCommit or lastEvent.
absent == NoLocation

\* The slot of the commit that holds the event.
slotOf(event) ==
    (CHOOSE row \in events : row.id = event.id /\ row.sequence = event.location.sequence).slot

\* C19: a load that has handed its consumer events returns as lastEvent the
\* location of the last of them and as lastCommit the sequence and the slot of
\* that event; a load that has handed on none returns neither, and that is the
\* case exactly when the stream, not written since the call started, holds no
\* event of a slot above the resume point.
C19_LoadResult ==
    \A l \in Loads :
        tx[l].result = "ok" =>
            LET n == Len(tx[l].processed)
            IN /\ n > 0 =>
                    /\ tx[l].lastEvent = tx[l].processed[n].location
                    /\ tx[l].lastCommit = [sequence |-> tx[l].since.sequence,
                                           slot |-> slotOf(tx[l].processed[n])]
               /\ n = 0 => tx[l].lastEvent = absent /\ tx[l].lastCommit = absent
               /\ ~tx[l].written => (n = 0 <=> eventsSince(tx[l].since) = <<>>)

\* After the save of commit (S, 1) with one event of index 1, load from (S, 0)
\* has handed on that event and returned lastCommit = (S, 1).
C19_Witness ==
    \E l \in Loads :
        /\ tx[l].result = "ok"
        /\ tx[l].since = [sequence |-> "S", slot |-> 0]
        /\ Len(tx[l].processed) = 1
        /\ tx[l].processed[1].location = [sequence |-> "S", index |-> 1]
        /\ tx[l].lastCommit = [sequence |-> "S", slot |-> 1]
        /\ tx[l].lastEvent = [sequence |-> "S", index |-> 1]
        /\ {<<row.slot, row.index>> : row \in events} = {<<1, 1>>}

-----------------------------------------------------------------------------
(* Reliable publication: sweeps that keep being run *)

\* Three commits of one event each to stream S, saved concurrently.
LiveWrites == <<[sequence |-> "S", slot |-> 1], [sequence |-> "S", slot |-> 2],
                [sequence |-> "S", slot |-> 3]>>

\* The caller of publishOutstanding calls it again when the call has settled.
publishOutstandingAgain(t) ==
    /\ tx[t].kind = "publishOutstanding"
    /\ tx[t].pc = "done"
    /\ tx' = [tx EXCEPT ![t] = [Idle("publishOutstanding") EXCEPT
                                    !.published = tx[t].published]]
    /\ UNCHANGED <<events, outbox, clock, loadBatchSize>>

LiveSavers == DOMAIN LiveWrites
LiveSweeper == Len(LiveWrites) + 1

InitLive == InitWith(<<"save", "save", "save", "publishOutstanding">>,
                     {defaultLoadBatchSize})

\* The publisher function may reject until the clock of the model stops, and
\* resolves from then on.
publisherWorks(ok) == ok \/ clock < MaxClock

\* Time passes. The clock of the model stops at MaxClock: its last tick waits
\* for the save calls that hold a connection to begin their transaction, so
\* that every outbox row (committed_at is the NOW() of BEGIN) gets older than
\* the age the sweeps ask for.
TickLive ==
    /\ clock + 1 = MaxClock => \A t \in LiveSavers : tx[t].pc # "begin"
    /\ Tick

\* A save starts before the clock of the model stops; the sweeps ask for age 0.
NextLive ==
    \/ TickLive
    \/ \E t \in T :
          /\ t \in DOMAIN LiveWrites
          /\ clock < MaxClock
          /\ save(t, UnitCommit(t, LiveWrites[t].sequence, LiveWrites[t].slot), clock)
    \/ \E t \in T : BEGIN(t)
    \/ \E t \in T : saveInsertEvent(t)
    \/ \E t \in T : saveInsertOutbox(t)
    \/ \E t \in T : publishOutstanding(t)
    \/ \E t \in T : \E limit \in Limits : doFindOutstanding(t, 0, limit)
    \/ \E t \in T : publishOutstandingNext(t)
    \/ \E t \in T : doPublishLock(t)
    \/ \E t \in T : doPublishEvents(t)
    \/ \E t \in T : \E ok \in BOOLEAN : publisherWorks(ok) /\ doPublishPublish(t, ok)
    \/ \E t \in T : doPublishDelete(t)
    \/ \E t \in T : COMMIT(t)
    \/ \E t \in T : ROLLBACK(t)
    \/ \E t \in T : publishOutstandingAgain(t)

\* What a call does once started: the statements of its transaction.
StepLive(t) ==
    \/ BEGIN(t)
    \/ saveInsertEvent(t)
    \/ saveInsertOutbox(t)
    \/ \E limit \in Limits : doFindOutstanding(t, 0, limit)
    \/ publishOutstandingNext(t)
    \/ doPublishLock(t)
    \/ doPublishEvents(t)
    \/ doPublishDelete(t)
    \/ COMMIT(t)
    \/ ROLLBACK(t)

\* Time passes, every started call goes on, the publisher function settles, and
\* sweeps keep being run.
FairLive ==
    /\ WF_vars(TickLive)
    /\ \A t \in LiveSavers \cup {LiveSweeper} : WF_vars(StepLive(t))
    /\ WF_vars(\E ok \in BOOLEAN : publisherWorks(ok) /\ doPublishPublish(LiveSweeper, ok))
    /\ WF_vars(publishOutstanding(LiveSweeper))
    /\ WF_vars(publishOutstandingAgain(LiveSweeper))

SpecLive == InitLive /\ [][NextLive]_vars /\ FairLive

\* The commit of save call t is in the store.
saved(t) == tx[t].kind = "save" /\ tx[t].result = "ok"

\* The events of the commit of save call t were taken by a publisher function
\* that resolved, and its outbox row is gone.
delivered(t) ==
    /\ \A k \in DOMAIN tx[t].commit.events :
          \E p \in T : tx[t].commit.events[k] \in tx[p].published
    /\ \A row \in outbox : \/ row.sequence # tx[t].commit.location.sequence
                           \/ row.slot # tx[t].commit.location.slot

\* C20: when sweeps keep being run and the publisher function resolves from some
\* time on, every commit that a save call stored is in the end taken by a publisher
\* function that resolved, and its outbox row is in the end deleted.
C20_CommittedEventuallyPublished ==
    \A t \in LiveSavers : saved(t) ~> delivered(t)

-----------------------------------------------------------------------------
(* The batch of a publishSequence *)

\* The minimum and the maximum slot of the outbox rows that a call has locked.
firstLocked(p) ==
    CHOOSE v \in {row.slot : row \in Range(tx[p].pendingSlots)} :
        \A row \in Range(tx[p].pendingSlots) : v <= row.slot
lastLocked(p) ==
    CHOOSE v \in {row.slot : row \in Range(tx[p].pendingSlots)} :
        \A row \in Range(tx[p].pendingSlots) : v >= row.slot

\* The events that the stream of a call holds with a slot from the minimum to the
\* maximum locked slot.
eventsInLockedRange(p) ==
    {rowToEvent(row) : row \in {e \in events : /\ e.sequence = tx[p].location.sequence
                                                /\ e.slot >= firstLocked(p)
                                                /\ e.slot <= lastLocked(p)}}

\* The events query of call p returns in this step, and the publisher function
\* of call p settles in this step.
eventsFetched(p) == tx[p].pc = "publish" /\ tx'[p].pc = "publisher"
publisherSettles(p) == tx[p].pc = "publisher" /\ tx'[p].pc # "publisher"

\* C21: a publishSequence that has locked a non-empty set of outbox rows
\* fetches the events of the stream with a slot from the minimum to the maximum
\* locked slot, each once, by ascending index, and calls the publisher function
\* once, with the events it fetched: the step in which the function settles
\* records the only call; and a publishSequence that commits with locked rows
\* has made that one call.
C21_PublishedBatch ==
    [][\A p \in SequencePublishers :
          /\ eventsFetched(p) =>
                /\ Len(tx[p].pendingSlots) > 0
                /\ tx[p].calls = <<>>
                /\ Range(rowsToEvents(tx'[p].pendingEvents)) = eventsInLockedRange(p)
                /\ Len(tx'[p].pendingEvents) = Cardinality(eventsInLockedRange(p))
                /\ ascendingIndex(rowsToEvents(tx'[p].pendingEvents))
          /\ publisherSettles(p) =>
                /\ Len(tx'[p].calls) = 1
                /\ tx'[p].calls[1].events = rowsToEvents(tx[p].pendingEvents)
          /\ (tx[p].pc = "commit" /\ tx'[p].pc = "done" /\ Len(tx[p].pendingSlots) > 0) =>
                /\ Len(tx[p].calls) = 1
                /\ tx[p].calls[1].ok
                /\ tx'[p].calls = tx[p].calls]_vars

\* A publishSequence has committed after it locked the rows of two commits and
\* handed the events of three commits, those of the commit between them too, to
\* its publisher function.
C21_Witness ==
    \E p \in SequencePublishers :
        /\ tx[p].result = "ok"
        /\ Len(tx[p].pendingSlots) = 2
        /\ Len(tx[p].calls) = 1
        /\ Len(tx[p].calls[1].events) = 3

-----------------------------------------------------------------------------
(* A publishSequence that finds nothing *)

\* The outbox rows of the stream of a call with a slot up to that of its location.
pendingOf(p) ==
    {row \in outbox : /\ row.sequence = tx[p].location.sequence
                      /\ row.slot <= tx[p].location.slot}

\* C22: a publishSequence whose FOR UPDATE statement runs while the outbox holds
\* no row of its stream with a slot up to its slot does nothing: it goes to COMMIT
\* with no row locked, its publisher function not called and nothing deleted, and
\* its COMMIT leaves the outbox as it is and the call resolves.
C22_NothingPendingIsNoOp ==
    [][\A p \in SequencePublishers :
          /\ (tx[p].pc = "select" /\ tx'[p].pc # "select" /\ pendingOf(p) = {}) =>
                /\ tx'[p].pc = "commit"
                /\ tx'[p].pendingSlots = <<>>
                /\ tx'[p].calls = <<>>
                /\ tx'[p].del = {} /\ tx'[p].excl = {}
                /\ outbox' = outbox
          /\ (tx[p].pc = "commit" /\ tx'[p].pc # "commit" /\ tx[p].pendingSlots = <<>>) =>
                /\ tx'[p].pc = "done"
                /\ tx'[p].result = "ok"
                /\ tx'[p].calls = <<>>
                /\ outbox' = outbox]_vars

\* A publishSequence that found nothing has resolved, while the outbox holds a
\* row of its stream above its slot and a row of the other stream.
C22_Witness ==
    \E p \in SequencePublishers :
        /\ tx[p].result = "ok"
        /\ tx[p].seen = {}
        /\ tx[p].calls = <<>>
        /\ \E row \in outbox : /\ row.sequence = tx[p].location.sequence
                                /\ row.slot > tx[p].location.slot
        /\ \E row \in outbox : /\ row.sequence # tx[p].location.sequence
                                /\ row.slot <= tx[p].location.slot

-----------------------------------------------------------------------------
(* load of a stream that is not written meanwhile *)

\* The event logs of stream S: every index holds no event (slot 0) or one event,
\* of any slot; the order of the slots need not be that of the indices.
ScanLogs ==
    {{eventRow(CommitOf(k, "S", slots[k], k, 1), CommitOf(k, "S", slots[k], k, 1).events[1],
               0, k) : k \in {j \in 1..MaxIndex : slots[j] > 0}} :
        slots \in [1..MaxIndex -> 0..MaxSlot]}

ScanLoad == 1

InitScan ==
    /\ events \in ScanLogs
    /\ outbox = {}
    /\ clock = 0
    /\ loadBatchSize \in 1..MaxBatch
    /\ tx = <<Idle("load")>>

NextScan ==
    \/ \E t \in T :
          \E since \in Locations({"S"}, 0..MaxSlot) : load(t, since)
    \/ \E t \in T : BEGIN(t)
    \/ \E t \in T : \E throwsAt \in Throws : loadBatch(t, throwsAt)
    \/ \E t \in T : COMMIT(t)
    \/ \E t \in T : ROLLBACK(t)

\* Every awaited statement of the transaction of load completes.
FairScan ==
    /\ WF_vars(BEGIN(ScanLoad))
    /\ WF_vars(\E throwsAt \in Throws : loadBatch(ScanLoad, throwsAt))
    /\ WF_vars(COMMIT(ScanLoad))
    /\ WF_vars(ROLLBACK(ScanLoad))

SpecScan == InitScan /\ [][NextScan]_vars /\ FairScan

\* The rows that this turn of the loop of load has handed to the consumer: the
\* rows that its query has returned, when the consumer has not thrown.
batchLength(l) == Len(tx'[l].processed) - Len(tx[l].processed)

\* C23: load of a stream that no save writes to meanwhile comes to an end: a
\* turn of its loop whose query returns loadBatchSize rows raises the slot that
\* the next query starts above and goes on, a turn whose query returns fewer
\* rows is the last one, a turn in which the consumer throws is the last one
\* too, and every load that has started settles: it resolves unless its
\* consumer has thrown.
C23_LoadTerminates ==
    /\ [][\A l \in Loads :
            (tx[l].pc = "query" /\ tx'[l] # tx[l]) =>
                /\ batchLength(l) <= loadBatchSize
                /\ \/ tx'[l].pc = "rollback" /\ tx'[l].error = "consumer"
                   \/ /\ batchLength(l) = loadBatchSize =>
                            /\ tx'[l].slot > tx[l].slot
                            /\ tx'[l].pc = "query"
                      /\ batchLength(l) < loadBatchSize => tx'[l].pc = "commit"]_vars
    /\ (tx[ScanLoad].pc = "query") ~>
           /\ tx[ScanLoad].pc = "done"
           /\ tx[ScanLoad].result = "ok" \/ tx[ScanLoad].error = "consumer"

\* A load with loadBatchSize 1 of a stream of two events has resolved after two
\* full batches and an empty one.
C23_Witness ==
    /\ tx[ScanLoad].result = "ok"
    /\ loadBatchSize = 1
    /\ tx[ScanLoad].batches = 3
    /\ Len(tx[ScanLoad].processed) = 2
    /\ Cardinality(events) >= 2

=============================================================================
